---- MODULE Spec2Model ----
(***************************************************************************)
(* Model of the Edge driver resolver, files/msedgedriver_manager/main.py.  *)
(*                                                                         *)
(* get_edge_driver_path (resolve) is a step machine: the position of the   *)
(* running call is pc, the filesystem is baseTree / exePayload / tempDirs  *)
(* / zipFiles / versionTmp, and what the operating system, the network and *)
(* the shell answer at each step is drawn with \E from small sets.         *)
(* An I/O operation that can fail in the program's environment (process    *)
(* spawn, network, file write, COM call, file or directory removal) has a  *)
(* failing outcome; path arithmetic and os.path.exists have none.          *)
(***************************************************************************)
EXTENDS Integers, Sequences, FiniteSets, TLC

VARIABLES
    pc,            \* position of the current get_edge_driver_path call
    calls,         \* number of get_edge_driver_path calls started so far
    prior,         \* how the call before the current one ended
    sameDir,       \* dirname(sys.executable) = base_path (frozen executable)
    baseTree,      \* files under base_path (the script directory)
    exePayload,    \* msedgedriver.exe exists in dirname(sys.executable)
    tempDirs,      \* mkdtemp directories that exist: "tmp" is the one of the
                   \* current call, "old" stands for those of earlier calls
    zipFiles,      \* the tempDirs that hold an edgedriver.zip
    zipContent,    \* what the edgedriver.zip of the current call holds
    versionTmp,    \* %TEMP%/edge_version.txt exists
    edge_version,  \* value returned by get_edge_version in this call
    temp_dir,      \* the current call's mkdtemp directory, "None" before mkdtemp
    result,        \* return value of the current / last call
    count,         \* per-call invocation counts of the collaborators
    raised,        \* steps of this call at which an exception was raised
    escaped,       \* an exception propagated out of get_edge_driver_path
    log,           \* warning and error records of the current call, in order
    chain,         \* the strategies get_edge_version has attempted so far in
                   \* the running detection, in order, each with its outcome
    transport,     \* the download_file_with_wininet call of the running
                   \* detection: what its strategies met and what it did
    ipc,           \* position of the inet_read / download_file_inet_read call
    stream,        \* the chunks the server sends for the URL being read
    data,          \* the bytes inet_read has accumulated, as chunks
    handles,       \* h_internet and h_url: "none", "open" or "closed"
    closes,        \* InternetCloseHandle calls made on each handle
    ret,           \* what inet_read returns: None (ok FALSE) or bytes
    via,           \* the exit inet_read takes, one of InetOutcomes
    saved,         \* download_file_inet_read: its return value and the file
    opc,           \* position of the organize_directory call
    orgFiles,      \* the files in source_dir and in its category folders
    orgDirs,       \* the category folders that exist under source_dir
    dry_run,       \* the --dry-run flag of the organize_directory call
    todo,          \* the top-level files iterdir has still to yield
    target,        \* the target move_file chose for the last entry
    exit_code,     \* organize_directory's exit_code
    hpc,           \* position of the health check's main
    disks,         \* percent_used of the disks collect_disk_usage returned
    output_file,   \* --output-file was given
    sev,           \* severity_from_disks(disks)
    report,        \* what became of the report: "written", "printed",
                   \* "write failed", "print failed", or "none" so far
    write_rc,      \* the value write_or_print returned
    status         \* the exit status of the health check process

\* the state of get_edge_driver_path and of the file system
resolveVars ==
    <<pc, calls, prior, sameDir, baseTree, exePayload, tempDirs, zipFiles,
      zipContent, versionTmp, edge_version, temp_dir, result, count,
      raised, escaped, log, chain, transport>>

\* the state of one inet_read / download_file_inet_read call
inetVars == <<ipc, stream, data, handles, closes, ret, via, saved>>

\* the state of one organize_directory call (file_organizer)
orgVars == <<opc, orgFiles, orgDirs, dry_run, todo, target, exit_code>>

\* the state of one run of the health check (system_health_check)
healthVars == <<hpc, disks, output_file, sev, report, write_rc, status>>

vars == <<resolveVars, inetVars, orgVars, healthVars>>

---------------------------------------------------------------------------
(* Bounds *)

\* number of successive get_edge_driver_path calls explored
MaxCalls == 2

\* longest text (subprocess output capture, file content) explored
MaxText == 1

\* longest stream, in chunks of buffer_size bytes, a server sends
MaxChunks == 2

\* highest counter suffix among the files a category folder holds at first
MaxSuffix == 2

\* largest number of disks collect_disk_usage returns
MaxDisks == 3

---------------------------------------------------------------------------
(* Text: the characters are "v" (any non-blank) and " " (whitespace) *)

Chars == {"v", " "}

Texts == UNION {[1..n -> Chars] : n \in 0..MaxText}

\* what a regex group (.+) can capture: at least one character
Captures == {t \in Texts : Len(t) >= 1}

RECURSIVE LStrip(_)
LStrip(t) == IF t # <<>> /\ Head(t) = " " THEN LStrip(Tail(t)) ELSE t

RECURSIVE RStrip(_)
RStrip(t) ==
    IF t # <<>> /\ t[Len(t)] = " " THEN RStrip(SubSeq(t, 1, Len(t) - 1)) ELSE t

\* str.strip()
Strip(t) == RStrip(LStrip(t))

\* the hardcoded fallback "136.0.3240.64"
HardcodedVersion == <<"1", "3", "6">>

\* Python truthiness of a str
Truthy(t) == t # <<>>

---------------------------------------------------------------------------
(* Files under base_path.  dir "" is base_path itself. *)

PayloadName == "msedgedriver.exe"

\* str.lower() on the file names of the model
Lower(name) ==
    CASE name = "MSEdgeDriver.EXE" -> "msedgedriver.exe"
      [] OTHER -> name

File(d, n) == [dir |-> d, name |-> n]

\* the entries an archive served by the driver endpoint may hold
Entries ==
    { File("", "msedgedriver.exe"), File("sub", "MSEdgeDriver.EXE"),
      File("Driver_Notes", "notes.txt") }

\* the host file system is case-insensitive: one file per (dir, lower name)
SameFile(e, f) == e.dir = f.dir /\ Lower(e.name) = Lower(f.name)

WellFormed(S) == \A e, f \in S : SameFile(e, f) => e = f

\* os.path.exists(os.path.join(base_path, d, n)) on the host file system
Exists(tree, d, n) == \E e \in tree : SameFile(e, File(d, n))

\* copying entries into a tree replaces the files they collide with
CopyInto(tree, new) ==
    {e \in tree : ~\E f \in new : SameFile(e, f)} \cup new

\* the content of edgedriver.zip: kind "none" (no file), "invalid" (bytes the
\* shell cannot open as an archive) or "zip" (an archive of entries)
Zip(k, S) == [kind |-> k, entries |-> S]

NoZip == Zip("none", {})

\* what a completed download can put into edgedriver.zip
ZipContents ==
    {Zip("invalid", {})} \cup {Zip("zip", S) : S \in {T \in SUBSET Entries : WellFormed(T)}}

---------------------------------------------------------------------------
(* Logging *)

Rec(lvl, msg) == [level |-> lvl, msg |-> msg]

\* the log variable keeps the warning and error records; info records are
\* dropped
Kept(recs) == SelectSeq(recs, LAMBDA r : r.level # "info")

Logged(l, lvl, msg) == Kept(Append(l, Rec(lvl, msg)))

\* invocations in the current call: get_edge_version, download_file_with_wininet,
\* download_file_inet_read, extract_zip_with_shell, tempfile.mkdtemp and the
\* reconciliation block of lines 366-382
ZeroCount ==
    [probe |-> 0, wininet |-> 0, inet |-> 0, extract |-> 0, mkdtemp |-> 0,
     reconcile |-> 0]

Bump(c, f) == [c EXCEPT ![f] = @ + 1]

\* absence: get_edge_driver_path returned None
Absent == "None"

PathResults == {"driver_path", "exe_path", "found_path"}

\* no download_file_with_wininet call has been made in the running detection
NoTransport == [native |-> "none", http |-> "none", tried |-> <<>>, ok |-> FALSE]

\* inet_read: neither handle acquired, no InternetCloseHandle call made
NoHandles == [internet |-> "none", url |-> "none"]

NoCloses == [internet |-> 0, url |-> 0]

\* the values inet_read returns: None, or the bytes d
ReturnNone == [ok |-> FALSE, data |-> <<>>]

ReturnData(d) == [ok |-> TRUE, data |-> d]

\* download_file_inet_read has not returned; save_path does not exist
NotSaved == [ok |-> FALSE, file |-> FALSE, content |-> <<>>]

\* file_organizer: a file name src.stem + counters + src.suffix, where each
\* counter k of ctrs stands for the text " (k)" appended to the stem
Name(b, c, e) == [base |-> b, ctrs |-> c, ext |-> e]

\* move_file has chosen no target
NoTarget == [dir |-> "", name |-> Name("", <<>>, "")]

---------------------------------------------------------------------------
(* State after construction: no call yet, a script directory with or      *)
(* without a cached driver.                                               *)

Init ==
    /\ pc = "idle"
    /\ calls = 0
    /\ prior = "none"
    /\ sameDir \in BOOLEAN
    /\ baseTree \in {{}, {File("", PayloadName)}}
    /\ exePayload \in BOOLEAN
    /\ sameDir => ~exePayload
    /\ tempDirs = {}
    /\ zipFiles = {}
    /\ zipContent = NoZip
    /\ versionTmp = FALSE
    /\ edge_version = <<>>
    /\ temp_dir = "None"
    /\ result = "pending"
    /\ count = ZeroCount
    /\ raised = {}
    /\ escaped = FALSE
    /\ log = <<>>
    /\ chain = <<>>
    /\ transport = NoTransport
    /\ ipc = "idle"
    /\ stream = <<>>
    /\ data = <<>>
    /\ handles = NoHandles
    /\ closes = NoCloses
    /\ ret = ReturnNone
    /\ via = "none"
    /\ saved = NotSaved
    /\ opc = "idle"
    /\ orgFiles = {}
    /\ orgDirs = {}
    /\ dry_run = FALSE
    /\ todo = {}
    /\ target = NoTarget
    /\ exit_code = 0
    /\ hpc = "idle"
    /\ disks = <<>>
    /\ output_file = FALSE
    /\ sev = 0
    /\ report = "none"
    /\ write_rc = 0
    /\ status = 0

---------------------------------------------------------------------------
(* get_edge_driver_path, lines 313-333: the cache check *)

\* os.path.exists(driver_path)
CanonicalExists(tree) == Exists(tree, "", PayloadName)

\* os.path.exists(os.path.join(os.path.dirname(sys.executable), ...))
ExeCandidateExists(tree, same, exe) ==
    IF same THEN CanonicalExists(tree) ELSE exe

\* mutant: the candidates are tried in the opposite order
CacheCheck_exeFirst(tree, same, exe) ==
    IF ExeCandidateExists(tree, same, exe) THEN "exe_path"
    ELSE IF CanonicalExists(tree) THEN "driver_path"
    ELSE "miss"

\* mutant: the check looks for another file name and never hits
CacheCheck_wrongName(tree, same, exe) ==
    IF Exists(tree, "", "chromedriver.exe") THEN "driver_path" ELSE "miss"

\* mutant: the first candidate is returned without testing that it exists
CacheCheck_noExists(tree, same, exe) == "driver_path"

\* the loop over possible_driver_locations: first existing candidate, or "miss"
CacheCheck(tree, same, exe) ==
    IF CanonicalExists(tree) THEN "driver_path"
    ELSE IF ExeCandidateExists(tree, same, exe) THEN "exe_path"
    ELSE "miss"

\* how a returned call ended: "failed" (None), "hit" (a cached candidate),
\* "placed" (acquired, driver_path returned) or "found" (acquired, found_path)
Ended(res, c) ==
    IF res = Absent THEN "failed"
    ELSE IF c.extract = 0 THEN "hit"
    ELSE IF res = "driver_path" THEN "placed"
    ELSE "found"

\* the directories an earlier call left behind, seen from a new call
Older(dirs) == IF dirs = {} THEN {} ELSE {"old"}

\* a call starts and runs its cache check
Call ==
    /\ pc \in {"idle", "Done"}
    /\ calls < MaxCalls
    /\ calls' = calls + 1
    /\ prior' = IF pc = "idle" THEN "none" ELSE Ended(result, count)
    /\ count' = ZeroCount
    /\ raised' = {}
    /\ escaped' = FALSE
    /\ edge_version' = <<>>
    /\ temp_dir' = "None"
    /\ tempDirs' = Older(tempDirs)
    /\ zipFiles' = Older(zipFiles)
    /\ zipContent' = NoZip
    /\ LET hit == CacheCheck(baseTree, sameDir, exePayload) IN
       IF hit # "miss"
       THEN /\ result' = hit
            /\ pc' = "Done"
            /\ log' = Kept(<<Rec("info", "driver found")>>)
       ELSE /\ result' = "pending"
            /\ pc' = "Wmic"
            /\ log' = Kept(<<Rec("info", "driver not found")>>)
    /\ UNCHANGED <<sameDir, baseTree, exePayload, versionTmp, chain, transport>>
    /\ UNCHANGED inetVars
    /\ UNCHANGED orgVars
    /\ UNCHANGED healthVars

---------------------------------------------------------------------------
(* get_edge_version, lines 222-309.  Nothing between the four inner try     *)
(* blocks can raise, so the outer handler of lines 304-309 has no action.  *)

\* what subprocess.run followed by re.search gives: the spawn raises, the
\* child never exits ("hang": subprocess.run is called without timeout=, so
\* it waits for the child without limit), the pattern does not match, or the
\* group (.+) captures a text
Run(k, t) == [kind |-> k, text |-> t]

RunOutcomes ==
    {Run("raise", <<>>), Run("hang", <<>>), Run("nomatch", <<>>)}
      \cup {Run("match", t) : t \in Captures}

\* result of one detection method: it returns a version, the chain goes on,
\* or the method never comes back
Returned(v) == [kind |-> "return", version |-> v, exc |-> FALSE]

GoOn(e) == [kind |-> "next", version |-> <<>>, exc |-> e]

Hung == [kind |-> "hang", version |-> <<>>, exc |-> FALSE]

\* the order of the strategies in get_edge_version
StrategyOrder == <<"wmic", "registry", "manifest", "remote", "hardcoded">>

\* one attempted strategy: whether it produced a version, which, and whether
\* an error was raised inside it
Attempt(s, r) ==
    [strategy |-> s, produced |-> r.kind = "return", version |-> r.version,
     erred |-> r.exc]

\* Method 1, lines 229-249: the loop over edge_paths from index i on.
\* installed[i]: os.path.exists(edge_paths[i]); outs[i]: the wmic run for it.
RECURSIVE WmicFrom(_, _, _)
WmicFrom(i, installed, outs) ==
    IF i > 2 THEN GoOn(FALSE)
    ELSE IF ~installed[i] THEN WmicFrom(i + 1, installed, outs)
    ELSE IF outs[i].kind = "raise" THEN GoOn(TRUE)
    ELSE IF outs[i].kind = "hang" THEN Hung
    ELSE IF outs[i].kind = "match" THEN Returned(Strip(outs[i].text))
    ELSE WmicFrom(i + 1, installed, outs)

WmicMethod(installed, outs) == WmicFrom(1, installed, outs)

\* Method 2, lines 252-263
RegMethod(out) ==
    IF out.kind = "raise" THEN GoOn(TRUE)
    ELSE IF out.kind = "hang" THEN Hung
    ELSE IF out.kind = "match" THEN Returned(Strip(out.text))
    ELSE GoOn(FALSE)

\* Method 3, lines 266-281.  m.kind: "absent" (directory or file missing),
\* "raise" (open or json.load fails, or the document is no object), "value"
\* (m.text is data.get('product', {}).get('version', ''))
Manifests ==
    {Run("absent", <<>>), Run("raise", <<>>)} \cup {Run("value", t) : t \in Texts}

ManifestMethod(m) ==
    IF m.kind = "raise" THEN GoOn(TRUE)
    ELSE IF m.kind = "value" /\ Truthy(m.text) THEN Returned(m.text)
    ELSE GoOn(FALSE)

\* download_file_with_wininet, lines 164-220.  native: "ok" (S_OK), "code"
\* (another HRESULT) or "raise"; http: "ok" or "raise" (urllib).
\* ok: the return value; wrote: a file was (at least partly) written;
\* partial: a failing attempt left bytes on disk; tried: the strategies run.
NativeOutcomes == {"ok", "code", "raise"}

HttpOutcomes == {"ok", "raise"}

\* mutant: no fallback, a failed native download is reported at once
DownloadFileWithWininet_nativeOnly(native, http, partial) ==
    IF native = "ok"
    THEN [ok |-> TRUE, wrote |-> TRUE, tried |-> <<"native">>,
          log |-> <<Rec("info", "wininet ok")>>]
    ELSE [ok |-> FALSE, wrote |-> FALSE, tried |-> <<"native">>,
          log |-> <<Rec("warning", "wininet failed"),
                    Rec("error", "wininet and urllib failed")>>]

DownloadFileWithWininet(native, http, partial) ==
    IF native = "ok"
    THEN [ok |-> TRUE, wrote |-> TRUE, tried |-> <<"native">>,
          log |-> <<Rec("info", "wininet ok")>>]
    ELSE IF http = "ok"
    THEN [ok |-> TRUE, wrote |-> TRUE, tried |-> <<"native", "http">>,
          log |-> <<Rec("warning", "wininet failed"), Rec("info", "urllib ok")>>]
    ELSE [ok |-> FALSE, wrote |-> partial, tried |-> <<"native", "http">>,
          log |-> <<Rec("warning", "wininet failed"),
                    Rec("error", "wininet and urllib failed")>>]

\* mutant: whatever the strategy found, the hardcoded version is returned
ReturnVersion_hardcoded(v) ==
    /\ edge_version' = HardcodedVersion
    /\ pc' = "CheckVersion"

\* get_edge_version returns v to line 336
ReturnVersion(v) ==
    /\ edge_version' = v
    /\ pc' = "CheckVersion"

\* a subprocess.run that never returns: the call stays inside it
Block ==
    /\ pc' = "Blocked"
    /\ edge_version' = edge_version

\* entry of get_edge_version and Method 1
Wmic ==
    /\ pc = "Wmic"
    /\ count' = Bump(count, "probe")
    /\ \E installed \in [1..2 -> BOOLEAN], outs \in [1..2 -> RunOutcomes] :
         LET r == WmicMethod(installed, outs) IN
         /\ chain' = <<Attempt("wmic", r)>>
         /\ IF r.kind = "return"
            THEN /\ ReturnVersion(r.version)
                 /\ raised' = raised
                 /\ log' = Logged(Logged(log, "info", "detecting"), "info", "version wmic")
            ELSE IF r.kind = "hang"
            THEN /\ Block
                 /\ raised' = raised
                 /\ log' = Logged(log, "info", "detecting")
            ELSE /\ pc' = "Reg"
                 /\ edge_version' = edge_version
                 /\ raised' = IF r.exc THEN raised \cup {"wmic"} ELSE raised
                 /\ log' = IF r.exc
                           THEN Logged(Logged(log, "info", "detecting"), "warning", "wmic failed")
                           ELSE Logged(log, "info", "detecting")
    /\ UNCHANGED <<calls, prior, sameDir, baseTree, exePayload, tempDirs,
                   zipFiles, zipContent, versionTmp, temp_dir, result, escaped,
                   transport>>
    /\ UNCHANGED inetVars
    /\ UNCHANGED orgVars
    /\ UNCHANGED healthVars

\* Method 2
Reg ==
    /\ pc = "Reg"
    /\ \E out \in RunOutcomes :
         LET r == RegMethod(out) IN
         /\ chain' = Append(chain, Attempt("registry", r))
         /\ IF r.kind = "return"
            THEN /\ ReturnVersion(r.version)
                 /\ raised' = raised
                 /\ log' = Logged(log, "info", "version registry")
            ELSE IF r.kind = "hang"
            THEN /\ Block
                 /\ raised' = raised
                 /\ log' = log
            ELSE /\ pc' = "Manifest"
                 /\ edge_version' = edge_version
                 /\ raised' = IF r.exc THEN raised \cup {"reg"} ELSE raised
                 /\ log' = IF r.exc THEN Logged(log, "warning", "registry failed") ELSE log
    /\ UNCHANGED <<calls, prior, sameDir, baseTree, exePayload, tempDirs,
                   zipFiles, zipContent, versionTmp, temp_dir, result, count,
                   escaped, transport>>
    /\ UNCHANGED inetVars
    /\ UNCHANGED orgVars
    /\ UNCHANGED healthVars

\* Method 3
Manifest ==
    /\ pc = "Manifest"
    /\ \E m \in Manifests :
         LET r == ManifestMethod(m) IN
         /\ chain' = Append(chain, Attempt("manifest", r))
         /\ IF r.kind = "return"
            THEN /\ ReturnVersion(r.version)
                 /\ raised' = raised
                 /\ log' = Logged(log, "info", "version file")
            ELSE /\ pc' = "Remote"
                 /\ edge_version' = edge_version
                 /\ raised' = IF r.exc THEN raised \cup {"manifest"} ELSE raised
                 /\ log' = IF r.exc THEN Logged(log, "warning", "version file failed") ELSE log
    /\ UNCHANGED <<calls, prior, sameDir, baseTree, exePayload, tempDirs,
                   zipFiles, zipContent, versionTmp, temp_dir, result, count,
                   escaped, transport>>
    /\ UNCHANGED inetVars
    /\ UNCHANGED orgVars
    /\ UNCHANGED healthVars

\* lines 284-302: the remote latest-stable lookup, then the hardcoded version.
\* content: what the download wrote; readOk: open/read of temp_file succeed;
\* removeOk: os.remove(temp_file) succeeds.
\* source: the strategy the returned version comes from.
RemoteLookup(d, content, readOk, removeOk) ==
    IF ~d.ok
    THEN [version |-> HardcodedVersion, source |-> "hardcoded", tmp |-> d.wrote,
          exc |-> FALSE,
          log |-> <<Rec("info", "using fallback version")>>]
    ELSE IF ~readOk
    THEN [version |-> HardcodedVersion, source |-> "hardcoded", tmp |-> TRUE,
          exc |-> TRUE,
          log |-> <<Rec("warning", "latest version failed"),
                    Rec("info", "using fallback version")>>]
    ELSE IF ~removeOk
    THEN [version |-> HardcodedVersion, source |-> "hardcoded", tmp |-> TRUE,
          exc |-> TRUE,
          log |-> <<Rec("warning", "latest version failed"),
                    Rec("info", "using fallback version")>>]
    ELSE [version |-> Strip(content), source |-> "remote", tmp |-> FALSE,
          exc |-> FALSE,
          log |-> <<Rec("info", "using latest stable")>>]

\* the attempts lines 284-302 add to the chain: the remote lookup, and the
\* hardcoded version when the lookup produced nothing
RemoteAttempts(d, r) ==
    IF r.source = "remote"
    THEN <<Attempt("remote", Returned(r.version))>>
    ELSE <<Attempt("remote", GoOn(r.exc \/ ~d.ok)),
           Attempt("hardcoded", Returned(r.version))>>

Remote ==
    /\ pc = "Remote"
    /\ count' = Bump(count, "wininet")
    /\ \E native \in NativeOutcomes, http \in HttpOutcomes, partial \in BOOLEAN,
          content \in Texts, readOk \in BOOLEAN, removeOk \in BOOLEAN :
         LET d == DownloadFileWithWininet(native, http, partial)
             r == RemoteLookup(d, content, readOk, removeOk)
         IN  /\ ReturnVersion(r.version)
             /\ chain' = chain \o RemoteAttempts(d, r)
             /\ transport' = [native |-> native, http |-> http,
                              tried |-> d.tried, ok |-> d.ok]
             /\ versionTmp' = IF d.wrote THEN r.tmp ELSE versionTmp
             /\ raised' = IF r.exc \/ native = "raise" \/ (native # "ok" /\ http = "raise")
                          THEN raised \cup {"remote"} ELSE raised
             /\ log' = Kept(Logged(log, "warning", "version not detected") \o d.log \o r.log)
    /\ UNCHANGED <<calls, prior, sameDir, baseTree, exePayload, tempDirs,
                   zipFiles, zipContent, temp_dir, result, escaped>>
    /\ UNCHANGED inetVars
    /\ UNCHANGED orgVars
    /\ UNCHANGED healthVars

\* mutant: the emptiness test of line 337 is missing
OnVersion_unchecked(v) == [pc |-> "MkTemp", result |-> "pending", log |-> <<>>]

\* lines 337-339: what get_edge_driver_path does with the detected version
OnVersion(v) ==
    IF ~Truthy(v)
    THEN [pc |-> "Done", result |-> Absent, log |-> <<Rec("error", "no version")>>]
    ELSE [pc |-> "MkTemp", result |-> "pending", log |-> <<>>]

\* lines 336-339: the version check of get_edge_driver_path
CheckVersion ==
    /\ pc = "CheckVersion"
    /\ LET o == OnVersion(edge_version) IN
       /\ pc' = o.pc
       /\ result' = o.result
       /\ log' = Kept(log \o o.log)
    /\ chain' = <<>>
    /\ transport' = NoTransport
    /\ UNCHANGED <<calls, prior, sameDir, baseTree, exePayload, tempDirs,
                   zipFiles, zipContent, versionTmp, edge_version, temp_dir,
                   count, raised, escaped>>
    /\ UNCHANGED inetVars
    /\ UNCHANGED orgVars
    /\ UNCHANGED healthVars

---------------------------------------------------------------------------
(* get_edge_driver_path, lines 341-396: acquisition *)

\* mutant: no top-level handler, the exception leaves the function
OuterHandler_reraise == [result |-> "pending", escaped |-> TRUE, msg |-> "setup error"]

\* the handler of lines 394-396: the exception becomes a None return
OuterHandler == [result |-> Absent, escaped |-> FALSE, msg |-> "setup error"]

\* the handler of lines 384-386, followed by the finally block
InnerHandler == [result |-> Absent, escaped |-> FALSE, msg |-> "download or extract error"]

\* line 342: tempfile.mkdtemp(), outside the inner try
MkTemp ==
    /\ pc = "MkTemp"
    /\ count' = Bump(count, "mkdtemp")
    /\ \E ok \in BOOLEAN :
         IF ok
         THEN /\ temp_dir' = "tmp"
              /\ tempDirs' = tempDirs \cup {"tmp"}
              /\ pc' = "Download"
              /\ UNCHANGED <<result, raised, escaped, log>>
         ELSE /\ result' = OuterHandler.result
              /\ escaped' = OuterHandler.escaped
              /\ raised' = raised \cup {"mkdtemp"}
              /\ log' = Logged(log, "error", OuterHandler.msg)
              /\ pc' = "Done"
              /\ UNCHANGED <<temp_dir, tempDirs>>
    /\ UNCHANGED <<calls, prior, sameDir, baseTree, exePayload, zipFiles,
                   zipContent, versionTmp, edge_version>>
    /\ UNCHANGED <<chain, transport>>
    /\ UNCHANGED inetVars
    /\ UNCHANGED orgVars
    /\ UNCHANGED healthVars

\* inet_read, lines 15-97, by its exits: "noinit" (line 54), "nourl" (line 69),
\* "raise" (line 97) or "data" (line 88)
InetOutcomes == {"noinit", "nourl", "raise", "data"}

\* mutant: inet_read fails without recording the failure
InetRead_silent(inet) ==
    IF inet = "data"
    THEN [data |-> "bytes", log |-> <<Rec("info", "inet read ok")>>]
    ELSE [data |-> "None", log |-> <<>>]

\* the value inet_read returns, None or bytes, and what it logs
InetRead(inet) ==
    CASE inet = "noinit" -> [data |-> "None", log |-> <<Rec("error", "wininet init failed")>>]
      [] inet = "nourl" -> [data |-> "None", log |-> <<Rec("error", "open url failed")>>]
      [] inet = "raise" -> [data |-> "None", log |-> <<Rec("error", "inet read error")>>]
      [] OTHER -> [data |-> "bytes", log |-> <<Rec("info", "inet read ok")>>]

\* download_file_inet_read, lines 99-114.  writeOk: open and write succeed;
\* partial: a failing write left a file behind.
DownloadFileInetRead(inet, writeOk, partial) ==
    LET r == InetRead(inet) IN
    IF r.data = "None"
    THEN [ok |-> FALSE, wrote |-> FALSE, complete |-> FALSE, exc |-> inet = "raise",
          log |-> r.log]
    ELSE IF writeOk
    THEN [ok |-> TRUE, wrote |-> TRUE, complete |-> TRUE, exc |-> FALSE,
          log |-> Logged(r.log, "info", "file saved")]
    ELSE [ok |-> FALSE, wrote |-> partial, complete |-> FALSE, exc |-> TRUE,
          log |-> Logged(r.log, "error", "save error")]

\* mutant: the download's return value is ignored
OnDownload_ignore(ok) == [pc |-> "Extract", result |-> "pending", log |-> <<>>]

\* lines 350-352: what get_edge_driver_path does with the download's result
OnDownload(ok) ==
    IF ok
    THEN [pc |-> "Extract", result |-> "pending", log |-> <<>>]
    ELSE [pc |-> "Cleanup", result |-> Absent, log |-> <<Rec("error", "download failed")>>]

\* lines 344-352
Download ==
    /\ pc = "Download"
    /\ count' = Bump(count, "inet")
    /\ \E inet \in InetOutcomes, writeOk \in BOOLEAN, partial \in BOOLEAN,
          content \in ZipContents :
         LET d == DownloadFileInetRead(inet, writeOk, partial)
             o == OnDownload(d.ok)
         IN  /\ zipFiles' = IF d.wrote THEN zipFiles \cup {temp_dir} ELSE zipFiles
             /\ zipContent' = IF d.complete THEN content
                              ELSE IF d.wrote THEN Zip("invalid", {})
                              ELSE zipContent
             /\ raised' = IF d.exc THEN raised \cup {"download"} ELSE raised
             /\ pc' = o.pc
             /\ result' = o.result
             /\ log' = Kept(Logged(log, "info", "downloading") \o d.log \o o.log)
    /\ UNCHANGED <<calls, prior, sameDir, baseTree, exePayload, tempDirs,
                   versionTmp, edge_version, temp_dir, escaped>>
    /\ UNCHANGED <<chain, transport>>
    /\ UNCHANGED inetVars
    /\ UNCHANGED orgVars
    /\ UNCHANGED healthVars

\* the loop of lines 146-152 (and 372-379): os.walk yields 3-tuples, so the
\* target list (root, files) raises ValueError on the first directory, and
\* the walked directory exists, so there is a first one
WalkPayload(tree) == "raise"

\* extract_zip_with_shell, lines 116-162.  comOk: CreateObject and NameSpace
\* work; copyOk: CopyHere returns normally; now: the entries the copy has
\* delivered when line 143 runs (CopyHere does not wait for the copy to end;
\* the entries it has not delivered by then stay out of the tree).
ExtractZipWithShell(zip, tree, comOk, copyOk, now) ==
    IF ~comOk
    THEN [ok |-> FALSE, tree |-> tree, exc |-> TRUE,
          log |-> <<Rec("error", "extract error: com")>>]
    ELSE IF zip.kind # "zip"
    THEN [ok |-> FALSE, tree |-> tree, exc |-> FALSE,
          log |-> <<Rec("error", "no zip access")>>]
    ELSE IF ~copyOk
    THEN [ok |-> FALSE, tree |-> tree, exc |-> TRUE,
          log |-> <<Rec("error", "extract error: copy")>>]
    ELSE LET t == CopyInto(tree, now)
         IN  IF Exists(t, "", PayloadName)
             THEN [ok |-> TRUE, tree |-> t, exc |-> FALSE,
                   log |-> <<Rec("info", "extraction completed")>>]
             ELSE IF WalkPayload(t) = "found"
             THEN [ok |-> TRUE, tree |-> t, exc |-> FALSE,
                   log |-> <<Rec("info", "extraction completed")>>]
             ELSE IF WalkPayload(t) = "raise"
             THEN [ok |-> FALSE, tree |-> t, exc |-> TRUE,
                   log |-> <<Rec("error", "extract error: unpack")>>]
             ELSE [ok |-> FALSE, tree |-> t, exc |-> FALSE,
                   log |-> <<Rec("warning", "payload not found")>>]

\* mutant: a failed extraction returns the expected path instead of None
OnExtract_path(ok) ==
    IF ok
    THEN [pc |-> "RemoveZip", result |-> "pending", log |-> <<>>]
    ELSE [pc |-> "Cleanup", result |-> "driver_path", log |-> <<Rec("error", "extract failed")>>]

\* mutant: the extractor's return value is ignored
OnExtract_ignore(ok) == [pc |-> "RemoveZip", result |-> "pending", log |-> <<>>]

\* lines 356-358: what get_edge_driver_path does with the extractor's result
OnExtract(ok) ==
    IF ok
    THEN [pc |-> "RemoveZip", result |-> "pending", log |-> <<>>]
    ELSE [pc |-> "Cleanup", result |-> Absent, log |-> <<Rec("error", "extract failed")>>]

\* lines 354-358
Extract ==
    /\ pc = "Extract"
    /\ count' = Bump(count, "extract")
    /\ \E comOk \in BOOLEAN, copyOk \in BOOLEAN, now \in SUBSET zipContent.entries :
         LET x == ExtractZipWithShell(zipContent, baseTree, comOk, copyOk, now)
             o == OnExtract(x.ok)
         IN  /\ baseTree' = x.tree
             /\ raised' = IF x.exc THEN raised \cup {"extract"} ELSE raised
             /\ pc' = o.pc
             /\ result' = o.result
             /\ log' = Kept(Logged(log, "info", "extracting") \o x.log \o o.log)
    /\ UNCHANGED <<calls, prior, sameDir, exePayload, tempDirs, zipFiles,
                   zipContent, versionTmp, edge_version, temp_dir, escaped>>
    /\ UNCHANGED <<chain, transport>>
    /\ UNCHANGED inetVars
    /\ UNCHANGED orgVars
    /\ UNCHANGED healthVars

\* lines 360-364: os.remove(zip_path) under a bare except
RemoveZip ==
    /\ pc = "RemoveZip"
    /\ \E ok \in BOOLEAN :
         IF ok
         THEN /\ zipFiles' = zipFiles \ {temp_dir}
              /\ zipContent' = NoZip
              /\ raised' = raised
         ELSE /\ zipFiles' = zipFiles
              /\ zipContent' = zipContent
              /\ raised' = raised \cup {"remove zip"}
    /\ pc' = "Reconcile"
    /\ UNCHANGED <<calls, prior, sameDir, baseTree, exePayload, tempDirs,
                   versionTmp, edge_version, temp_dir, result, count,
                   escaped, log>>
    /\ UNCHANGED <<chain, transport>>
    /\ UNCHANGED inetVars
    /\ UNCHANGED orgVars
    /\ UNCHANGED healthVars

\* the first payload os.walk(base_path) meets outside base_path itself
FoundBelow(tree) ==
    CHOOSE e \in tree : e.dir # "" /\ Lower(e.name) = PayloadName

\* lines 366-382.  moveOk: shutil.move succeeds.
Reconciled(tree, moveOk) ==
    IF CanonicalExists(tree)
    THEN [result |-> "driver_path", tree |-> tree, exc |-> FALSE,
          lvl |-> "info", msg |-> "downloaded and extracted"]
    ELSE IF WalkPayload(tree) = "raise"
    THEN [result |-> InnerHandler.result, tree |-> tree, exc |-> TRUE,
          lvl |-> "error", msg |-> InnerHandler.msg]
    ELSE IF WalkPayload(tree) = "found"
    THEN IF moveOk
         THEN [result |-> "driver_path",
               tree |-> (tree \ {FoundBelow(tree)}) \cup {File("", FoundBelow(tree).name)},
               exc |-> FALSE, lvl |-> "info", msg |-> "moved"]
         ELSE [result |-> InnerHandler.result, tree |-> tree, exc |-> TRUE,
               lvl |-> "error", msg |-> InnerHandler.msg]
    ELSE [result |-> Absent, tree |-> tree, exc |-> FALSE,
          lvl |-> "error", msg |-> "not found in extracted files"]

Reconcile ==
    /\ pc = "Reconcile"
    /\ count' = Bump(count, "reconcile")
    /\ \E moveOk \in BOOLEAN :
         LET r == Reconciled(baseTree, moveOk) IN
         /\ result' = r.result
         /\ baseTree' = r.tree
         /\ raised' = IF r.exc THEN raised \cup {"reconcile"} ELSE raised
         /\ log' = Logged(log, r.lvl, r.msg)
    /\ pc' = "Cleanup"
    /\ UNCHANGED <<calls, prior, sameDir, exePayload, tempDirs, zipFiles,
                   zipContent, versionTmp, edge_version, temp_dir, escaped>>
    /\ UNCHANGED <<chain, transport>>
    /\ UNCHANGED inetVars
    /\ UNCHANGED orgVars
    /\ UNCHANGED healthVars

\* shutil.rmtree(temp_dir): "ok", or "locked" (a file of the directory is in
\* use or otherwise cannot be removed: rmtree raises and the directory stays)
RmtreeOutcomes == {"ok", "locked"}

\* lines 387-392: the finally block, rmtree under a bare except
Finally(dirs, zips, d, how) ==
    IF how = "ok" THEN [dirs |-> dirs \ {d}, zips |-> zips \ {d}, exc |-> FALSE]
    ELSE [dirs |-> dirs, zips |-> zips, exc |-> TRUE]

Cleanup ==
    /\ pc = "Cleanup"
    /\ \E how \in RmtreeOutcomes :
         LET f == Finally(tempDirs, zipFiles, temp_dir, how) IN
         /\ tempDirs' = f.dirs
         /\ zipFiles' = f.zips
         /\ zipContent' = IF temp_dir \in f.zips THEN zipContent ELSE NoZip
         /\ raised' = IF f.exc THEN raised \cup {"cleanup"} ELSE raised
    /\ pc' = "Done"
    /\ UNCHANGED <<calls, prior, sameDir, baseTree, exePayload, versionTmp,
                   edge_version, temp_dir, result, count, escaped, log>>
    /\ UNCHANGED <<chain, transport>>
    /\ UNCHANGED inetVars
    /\ UNCHANGED orgVars
    /\ UNCHANGED healthVars

Next ==
    \/ Call
    \/ Wmic
    \/ Reg
    \/ Manifest
    \/ Remote
    \/ CheckVersion
    \/ MkTemp
    \/ Download
    \/ Extract
    \/ RemoveZip
    \/ Reconcile
    \/ Cleanup

Spec == Init /\ [][Next]_vars

---------------------------------------------------------------------------
(* inet_read, lines 15-97, and download_file_inet_read, lines 99-114,      *)
(* statement by statement.  The exits are those of InetOutcomes, by which  *)
(* the Download action above abstracts a whole call.                       *)

\* the content of one buffer_size read
Chunks == {"a", "b"}

\* what a server sends for a URL, cut into the chunks InternetReadFile returns
Streams == UNION {[1..n -> Chunks] : n \in 0..MaxChunks}

\* download_file_inet_read is called and enters inet_read, lines 99-102, 15-46
InetCall ==
    /\ ipc \in {"idle", "done"}
    /\ stream' \in Streams
    /\ data' = <<>>
    /\ handles' = NoHandles
    /\ closes' = NoCloses
    /\ ret' = ReturnNone
    /\ via' = "none"
    /\ saved' = NotSaved
    /\ ipc' = "Open"
    /\ UNCHANGED resolveVars
    /\ UNCHANGED orgVars
    /\ UNCHANGED healthVars

\* lines 21-54: the wininet prototypes and InternetOpenW.  "null": no handle
\* is returned (line 52); "raise": the library cannot be loaded or called;
\* both leave the function with no handle acquired.
InetOpen ==
    /\ ipc = "Open"
    /\ \E how \in {"ok", "null", "raise"} :
         IF how = "ok"
         THEN /\ handles' = [handles EXCEPT !.internet = "open"]
              /\ ipc' = "OpenUrl"
              /\ UNCHANGED <<ret, via>>
         ELSE /\ ret' = ReturnNone
              /\ via' = IF how = "null" THEN "noinit" ELSE "raise"
              /\ ipc' = "Returned"
              /\ UNCHANGED handles
    /\ UNCHANGED <<stream, data, closes, saved>>
    /\ UNCHANGED resolveVars
    /\ UNCHANGED orgVars
    /\ UNCHANGED healthVars

\* mutant: the return of line 69 is not covered by the finally of line 92
AfterUrlNull_leak == "Returned"

\* where the return None of line 69 goes: into the finally block of line 92
AfterUrlNull == "CloseInternet"

\* lines 56-69: InternetOpenUrlW inside the outer try
InetOpenUrl ==
    /\ ipc = "OpenUrl"
    /\ \E how \in {"ok", "null", "raise"} :
         IF how = "ok"
         THEN /\ handles' = [handles EXCEPT !.url = "open"]
              /\ ipc' = "Read"
              /\ UNCHANGED <<ret, via>>
         ELSE /\ ret' = ReturnNone
              /\ via' = IF how = "null" THEN "nourl" ELSE "raise"
              /\ ipc' = IF how = "null" THEN AfterUrlNull ELSE "CloseInternet"
              /\ UNCHANGED handles
    /\ UNCHANGED <<stream, data, closes, saved>>
    /\ UNCHANGED resolveVars
    /\ UNCHANGED orgVars
    /\ UNCHANGED healthVars

\* one turn of the loop of lines 78-85.  how: "ok" (InternetReadFile returns
\* TRUE, with the next chunk or with 0 bytes at the end of the stream),
\* "fail" (it returns FALSE: break) or "raise".  The result is the data so
\* far and whether the loop goes on, returns (line 88) or raises.
ReadTurn(d, st, how) ==
    IF how = "raise" THEN [data |-> d, then |-> "raise"]
    ELSE IF how = "fail" THEN [data |-> d, then |-> "return"]
    ELSE IF Len(d) = Len(st) THEN [data |-> d, then |-> "return"]
    ELSE [data |-> Append(d, st[Len(d) + 1]), then |-> "loop"]

\* lines 71-88
InetReadFile ==
    /\ ipc = "Read"
    /\ \E how \in {"ok", "fail", "raise"} :
         LET t == ReadTurn(data, stream, how) IN
         /\ data' = t.data
         /\ IF t.then = "loop"
            THEN /\ ipc' = "Read"
                 /\ UNCHANGED <<ret, via>>
            ELSE /\ ipc' = "CloseUrl"
                 /\ ret' = IF t.then = "return" THEN ReturnData(t.data) ELSE ReturnNone
                 /\ via' = IF t.then = "return" THEN "data" ELSE "raise"
    /\ UNCHANGED <<stream, handles, closes, saved>>
    /\ UNCHANGED resolveVars
    /\ UNCHANGED orgVars
    /\ UNCHANGED healthVars

\* lines 90-91: finally, InternetCloseHandle(h_url)
InetCloseUrl ==
    /\ ipc = "CloseUrl"
    /\ handles' = [handles EXCEPT !.url = "closed"]
    /\ closes' = [closes EXCEPT !.url = @ + 1]
    /\ ipc' = "CloseInternet"
    /\ UNCHANGED <<stream, data, ret, via, saved>>
    /\ UNCHANGED resolveVars
    /\ UNCHANGED orgVars
    /\ UNCHANGED healthVars

\* lines 92-97: finally, InternetCloseHandle(h_internet); then the function
\* returns, through the handler of line 95 when an exception is under way
InetCloseInternet ==
    /\ ipc = "CloseInternet"
    /\ handles' = [handles EXCEPT !.internet = "closed"]
    /\ closes' = [closes EXCEPT !.internet = @ + 1]
    /\ ipc' = "Returned"
    /\ UNCHANGED <<stream, data, ret, via, saved>>
    /\ UNCHANGED resolveVars
    /\ UNCHANGED orgVars
    /\ UNCHANGED healthVars

\* download_file_inet_read, lines 102-114, on what inet_read returned.
\* writeOk: open and write succeed; partial: a failing write left a file.
SaveData(r, writeOk, partial) ==
    IF ~r.ok THEN [ok |-> FALSE, file |-> FALSE, content |-> <<>>]
    ELSE IF writeOk THEN [ok |-> TRUE, file |-> TRUE, content |-> r.data]
    ELSE [ok |-> FALSE, file |-> partial, content |-> <<>>]

Save ==
    /\ ipc = "Returned"
    /\ \E writeOk \in BOOLEAN, partial \in BOOLEAN :
         saved' = SaveData(ret, writeOk, partial)
    /\ ipc' = "done"
    /\ UNCHANGED <<stream, data, handles, closes, ret, via>>
    /\ UNCHANGED resolveVars
    /\ UNCHANGED orgVars
    /\ UNCHANGED healthVars

NextInet ==
    \/ InetCall
    \/ InetOpen
    \/ InetOpenUrl
    \/ InetReadFile
    \/ InetCloseUrl
    \/ InetCloseInternet
    \/ Save

SpecInet == Init /\ [][NextInet]_vars

---------------------------------------------------------------------------
(* file_organizer/main.py: organize_directory and move_file.  dir "" is    *)
(* source_dir itself, the other dirs are its category folders.             *)

\* content "new": a file found in source_dir; "old": one a folder already held
OFile(d, n, c) == [dir |-> d, name |-> n, content |-> c]

\* line 52: f"{stem} ({counter}){suffix}"
WithCounter(n, k) == Name(n.base, Append(n.ctrs, k), n.ext)

\* categorize and CATEGORY_FOLDERS, lines 30-35 and 90, on the suffixes of
\* the model
DestFolder(n) ==
    CASE n.ext = ".jpg" -> "Images"
      [] n.ext = ".txt" -> "Documents"
      [] OTHER -> "Others"

\* the names of the top-level files of source_dir
SrcNames ==
    {Name("a", <<>>, ".jpg"), Name("a", <<1>>, ".jpg"), Name("a", <<>>, ".txt")}

\* the names a category folder may hold before the call
OldNames(d) ==
    IF d = "Images"
    THEN {Name("a", <<>>, ".jpg")} \cup {Name("a", <<k>>, ".jpg") : k \in 1..MaxSuffix}
    ELSE IF d = "Documents" THEN {Name("a", <<>>, ".txt")}
    ELSE {}

Folders == {"Images", "Documents"}

\* the directory trees organize_directory may be started on: any top-level
\* files, any existing category folders, any old files in those folders
OrgTrees ==
    { [files |-> {OFile("", n, "new") : n \in top}
                   \cup {OFile("Images", n, "old") : n \in img}
                   \cup {OFile("Documents", n, "old") : n \in doc},
       dirs |-> ds] :
        top \in SUBSET SrcNames, img \in SUBSET OldNames("Images"),
        doc \in SUBSET OldNames("Documents"),
        ds \in {D \in SUBSET Folders : TRUE} }

\* a tree is one a file system can hold: files lie in existing folders
TreeOk(t) == \A f \in t.files : f.dir = "" \/ f.dir \in t.dirs

\* Path.exists() of dest_dir / name
OExists(files, d, n) == \E f \in files : f.dir = d /\ f.name = n

\* ensure_directory, lines 38-40.  mkdirOk: mkdir succeeds.
EnsureDirectory(dirs, d, mkdirOk) ==
    IF d \in dirs THEN [dirs |-> dirs, raised |-> FALSE]
    ELSE IF mkdirOk THEN [dirs |-> dirs \cup {d}, raised |-> FALSE]
    ELSE [dirs |-> dirs, raised |-> TRUE]

\* the loop of lines 50-56, from counter k on
RECURSIVE FreeCandidate(_, _, _, _)
FreeCandidate(files, d, n, k) ==
    IF ~OExists(files, d, WithCounter(n, k)) THEN WithCounter(n, k)
    ELSE FreeCandidate(files, d, n, k + 1)

\* mutant: the target is dest_dir / src.name whether it exists or not
ChooseTarget_plain(files, d, n) == n

\* lines 45-56: the name move_file moves to
ChooseTarget(files, d, n) ==
    IF OExists(files, d, n) THEN FreeCandidate(files, d, n, 1) ELSE n

\* shutil.move(src, target) by os.rename: a file at the target is replaced
ShutilMove(files, src, d, t) ==
    {f \in files : f # src /\ ~(f.dir = d /\ f.name = t)}
      \cup {OFile(d, t, src.content)}

\* move_file, lines 43-63.  moveOk: shutil.move succeeds.
MoveFile(files, dirs, src, d, dry, mkdirOk, moveOk) ==
    LET e == EnsureDirectory(dirs, d, mkdirOk) IN
    IF e.raised
    THEN [files |-> files, dirs |-> e.dirs, target |-> NoTarget, raised |-> TRUE]
    ELSE LET t == ChooseTarget(files, d, src.name) IN
         IF dry
         THEN [files |-> files, dirs |-> e.dirs, target |-> [dir |-> d, name |-> t],
               raised |-> FALSE]
         ELSE IF ~moveOk
         THEN [files |-> files, dirs |-> e.dirs, target |-> [dir |-> d, name |-> t],
               raised |-> TRUE]
         ELSE [files |-> ShutilMove(files, src, d, t), dirs |-> e.dirs,
               target |-> [dir |-> d, name |-> t], raised |-> FALSE]

\* organize_directory is called, lines 66-78, once per run of the script.
\* isDir: source_dir exists and is a directory; listOk: iterdir can list it.
OrgStart ==
    /\ opc = "idle"
    /\ dry_run' \in BOOLEAN
    /\ target' = NoTarget
    /\ \E isDir \in BOOLEAN, listOk \in BOOLEAN, t \in {u \in OrgTrees : TreeOk(u)} :
         IF ~isDir
         THEN /\ orgFiles' = {}
              /\ orgDirs' = {}
              /\ todo' = {}
              /\ exit_code' = 1
              /\ opc' = "done"
         ELSE /\ orgFiles' = t.files
              /\ orgDirs' = t.dirs
              /\ todo' = IF listOk THEN {f \in t.files : f.dir = ""} ELSE {}
              /\ exit_code' = IF listOk THEN 0 ELSE 1
              /\ opc' = "loop"
    /\ UNCHANGED resolveVars
    /\ UNCHANGED inetVars
    /\ UNCHANGED healthVars

\* one turn of the loop of lines 78-104: the entry is a file, and no file
\* of the model has the name of a category folder
OrgMove ==
    /\ opc = "loop"
    /\ \E entry \in todo, mkdirOk \in BOOLEAN, moveOk \in BOOLEAN :
         LET r == MoveFile(orgFiles, orgDirs, entry, DestFolder(entry.name),
                           dry_run, mkdirOk, moveOk)
         IN  /\ orgFiles' = r.files
             /\ orgDirs' = r.dirs
             /\ target' = r.target
             /\ exit_code' = IF r.raised THEN 1 ELSE exit_code
             /\ todo' = todo \ {entry}
    /\ UNCHANGED <<opc, dry_run>>
    /\ UNCHANGED resolveVars
    /\ UNCHANGED inetVars
    /\ UNCHANGED healthVars

\* lines 112-116: the loop is over, exit_code is returned
OrgFinish ==
    /\ opc = "loop"
    /\ todo = {}
    /\ opc' = "done"
    /\ UNCHANGED <<orgFiles, orgDirs, dry_run, todo, target, exit_code>>
    /\ UNCHANGED resolveVars
    /\ UNCHANGED inetVars
    /\ UNCHANGED healthVars

NextOrg ==
    \/ OrgStart
    \/ OrgMove
    \/ OrgFinish

SpecOrg == Init /\ [][NextOrg]_vars

---------------------------------------------------------------------------
(* system_health_check/main.py: severity_from_disks, write_or_print, main *)

\* the thresholds of lines 105 and 107
CriticalPercent == 90

WarningPercent == 80

\* the percent_used values explored: the two thresholds, their neighbours
\* and the ends of the scale
Percents == {0, 80, 81, 90, 91, 100}

\* what collect_disk_usage may return, as the percent_used of each disk
DiskLists == UNION {[1..n -> Percents] : n \in 0..MaxDisks}

Max(a, b) == IF a >= b THEN a ELSE b

\* the loop of lines 103-108 from disk i on, with the sev reached so far
RECURSIVE SeverityFrom(_, _, _)
SeverityFrom(ds, i, s) ==
    IF i > Len(ds) THEN s
    ELSE IF ds[i] > CriticalPercent THEN 2
    ELSE IF ds[i] > WarningPercent THEN SeverityFrom(ds, i + 1, Max(s, 1))
    ELSE SeverityFrom(ds, i + 1, s)

\* severity_from_disks, lines 100-109
severity_from_disks(ds) == SeverityFrom(ds, 1, 0)

\* write_or_print, lines 144-156.  toFile: output_file is given; mkdirOk,
\* writeOk: parent.mkdir and write_text succeed; printOk: the print call of
\* the branch taken (line 150 or line 155) succeeds.  raised: the exception
\* leaves write_or_print (line 155 is outside the try).
WriteOrPrint(toFile, mkdirOk, writeOk, printOk) ==
    IF toFile
    THEN IF ~(mkdirOk /\ writeOk)
         THEN [rc |-> 2, report |-> "write failed", raised |-> FALSE]
         ELSE IF ~printOk
         THEN [rc |-> 2, report |-> "written", raised |-> FALSE]
         ELSE [rc |-> 0, report |-> "written", raised |-> FALSE]
    ELSE IF printOk
    THEN [rc |-> 0, report |-> "printed", raised |-> FALSE]
    ELSE [rc |-> 0, report |-> "print failed", raised |-> TRUE]

\* lines 177-180: main's return value
MainReturn(rc, s) == IF rc # 0 THEN rc ELSE s

\* main, lines 166-174: the arguments, the collected disks, the severity
HealthCollect ==
    /\ hpc = "idle"
    /\ output_file' \in BOOLEAN
    /\ \E ds \in DiskLists :
         /\ disks' = ds
         /\ sev' = severity_from_disks(ds)
    /\ hpc' = "report"
    /\ UNCHANGED <<report, write_rc, status>>
    /\ UNCHANGED resolveVars
    /\ UNCHANGED inetVars
    /\ UNCHANGED orgVars

\* main, lines 176-180 and 184: write_or_print, then sys.exit(main()); an
\* exception that leaves main ends the process with status 1
HealthWrite ==
    /\ hpc = "report"
    /\ \E mkdirOk \in BOOLEAN, writeOk \in BOOLEAN, printOk \in BOOLEAN :
         LET w == WriteOrPrint(output_file, mkdirOk, writeOk, printOk) IN
         /\ report' = w.report
         /\ write_rc' = w.rc
         /\ status' = IF w.raised THEN 1 ELSE MainReturn(w.rc, sev)
    /\ hpc' = "exited"
    /\ UNCHANGED <<disks, output_file, sev>>
    /\ UNCHANGED resolveVars
    /\ UNCHANGED inetVars
    /\ UNCHANGED orgVars

NextHealth ==
    \/ HealthCollect
    \/ HealthWrite

SpecHealth == Init /\ [][NextHealth]_vars

---------------------------------------------------------------------------
(* Properties *)

\* some record of the current call's log has one of the messages
LogHas(msgs) == \E i \in DOMAIN log : log[i].msg \in msgs

\* the call has returned
HasReturned == pc = "Done"

\* C1: when the payload exists at a candidate location as a call starts, the
\* call returns at once with the first existing candidate in the order
\* driver_path, executable's directory, and invokes neither get_edge_version
\* nor a download function nor the extractor, and makes no temporary directory.
C1_CacheHitShortCircuits ==
    [][ (Call /\ (Exists(baseTree, "", PayloadName) \/ (~sameDir /\ exePayload)))
        => /\ pc' = "Done"
           /\ result' = (IF Exists(baseTree, "", PayloadName)
                         THEN "driver_path" ELSE "exe_path")
           /\ count' = ZeroCount
           /\ temp_dir' = "None"
           /\ "tmp" \notin tempDirs' ]_vars

\* a call returned the second candidate without touching a collaborator
C1_Witness ==
    /\ HasReturned
    /\ result = "exe_path"
    /\ ~Exists(baseTree, "", PayloadName)
    /\ count = ZeroCount

\* C2: after a cache miss with a version detected, the archive downloaded and
\* the payload extracted to the canonical path, the call returns the canonical
\* path and its temporary directory is gone.
C2_SuccessLeavesNoWorkspace ==
    (HasReturned /\ count.reconcile = 1 /\ Truthy(edge_version)
       /\ Exists(baseTree, "", PayloadName))
    => (result = "driver_path" /\ "tmp" \notin tempDirs)

\* C3: whenever a call that made a temporary directory has returned, by any
\* exit path, that directory no longer exists.
C3_WorkspaceAlwaysRemoved ==
    (HasReturned /\ count.mkdtemp = 1 /\ temp_dir = "tmp") => "tmp" \notin tempDirs

\* C4: a call that follows a call which acquired the driver and returned the
\* canonical path takes the cache-hit branch: it returns the canonical path
\* with no version probing, no download, no extraction.
C4_SecondCallHitsCache ==
    prior = "placed" => (HasReturned /\ result = "driver_path" /\ count = ZeroCount)

\* a second call has run after an acquiring first call
C4_Witness == prior = "placed" /\ calls = 2 /\ HasReturned /\ result = "driver_path"

\* download_file_inet_read reported failure in this call
DownloadFailed ==
    LogHas({"wininet init failed", "open url failed", "inet read error", "save error"})

\* C5: when the archive download fails, the call returns None and neither the
\* extractor nor the reconciliation runs in that call.
C5_DownloadFailureIsAbsence ==
    DownloadFailed
    => /\ pc \in {"Cleanup", "Done"}
       /\ result = Absent
       /\ count.extract = 0
       /\ count.reconcile = 0

\* a call returned after its download failed
C5_Witness == HasReturned /\ DownloadFailed /\ count.inet = 1 /\ result = Absent

\* extract_zip_with_shell reported failure in this call
ExtractFailed ==
    LogHas({"extract error: com", "no zip access", "extract error: copy",
            "extract error: unpack", "payload not found"})

\* C6: when the extractor reports failure, in particular when the payload is
\* not found after a copy that returned normally, the call returns None and
\* never a path.
C6_ExtractFailureIsAbsence ==
    ExtractFailed => (pc \in {"Cleanup", "Done"} /\ result = Absent)

\* the copy returned normally and delivered the payload to a subdirectory
\* only: the extractor reported failure and the call returned None
C6_Witness ==
    /\ HasReturned
    /\ LogHas({"extract error: unpack", "payload not found"})
    /\ File("sub", "MSEdgeDriver.EXE") \in baseTree
    /\ result = Absent

\* C7: get_edge_version always hands a non-empty version string to its caller,
\* whatever the remote latest-stable lookup delivers (stated for the calls
\* that reached the remote lookup, the case the claim singles out).
C7_DetectAlwaysYieldsVersion ==
    (pc = "CheckVersion" /\ count.wininet = 1) => Truthy(edge_version)

\* C8: when get_edge_version yields no version, the call returns None at
\* once: no temporary directory is made and no archive download is attempted.
C8_NoVersionStopsResolve ==
    (count.probe = 1 /\ pc \notin {"Reg", "Manifest", "Remote", "Blocked", "CheckVersion"}
       /\ ~Truthy(edge_version))
    => /\ HasReturned
       /\ result = Absent
       /\ count.mkdtemp = 0
       /\ count.inet = 0
       /\ temp_dir = "None"
       /\ "tmp" \notin tempDirs

\* a call returned None because the detected version was empty
C8_Witness ==
    HasReturned /\ count.probe = 1 /\ ~Truthy(edge_version) /\ result = Absent

\* C9: an exception raised at any step of a call is turned into a None
\* return and does not leave get_edge_driver_path.
C9_AnyExceptionIsAbsence ==
    (HasReturned /\ raised # {}) => (result = Absent /\ ~escaped)

\* C9 as amended: no exception leaves get_edge_driver_path, and an exception
\* raised by mkdtemp, the download, the extraction or the reconciliation makes
\* the call return None (one raised inside version detection or while removing
\* the archive or the temporary directory is absorbed where it is raised and
\* does not decide the result).
C9_NoExceptionEscapes ==
    /\ ~escaped
    /\ (HasReturned /\ raised \cap {"mkdtemp", "download", "extract", "reconcile"} # {})
       => result = Absent

\* mkdtemp raised and the call returned None
C9_Witness == HasReturned /\ "mkdtemp" \in raised /\ result = Absent /\ ~escaped

\* C10: when a call has returned, the downloaded archive is gone and nothing
\* the extraction created is left except the payload at the canonical path
\* (stated for the calls in which no operation raised, so that a failing
\* removal is not what decides it).
C10_NothingLeftBehind ==
    (HasReturned /\ raised = {})
    => /\ "tmp" \notin zipFiles
       /\ \A e \in baseTree : e.dir = "" /\ Lower(e.name) = PayloadName

\* C11: when get_edge_version returns after its remote latest-stable lookup,
\* %TEMP%/edge_version.txt does not exist, whether the download succeeded,
\* failed after writing part of the file, or the file could not be read.
C11_LookupLeavesNoTempFile ==
    (pc = "CheckVersion" /\ count.wininet = 1) => ~versionTmp

\* the failure records of inet_read and download_file_inet_read in the log
ArchiveFailures ==
    SelectSeq(log, LAMBDA r : r.msg \in {"wininet init failed", "open url failed",
                                         "inet read error", "save error"})

\* the archive download of this call was made and reported failure
ArchiveDownloadFailed ==
    count.inet = 1 /\ count.extract = 0 /\ pc \in {"Cleanup", "Done"}

C13_DetectionNeverBlocks == pc # "Blocked"

\* C14: the strategies of get_edge_version are attempted in the order wmic,
\* registry, manifest, remote lookup, hardcoded version; a strategy is
\* attempted only when every earlier one produced nothing; and the version
\* returned is the one produced by the first strategy that produced one.
C14_StrategiesInOrder ==
    /\ Len(chain) <= Len(StrategyOrder)
    /\ \A i \in DOMAIN chain : chain[i].strategy = StrategyOrder[i]
    /\ \A i \in DOMAIN chain : i < Len(chain) => ~chain[i].produced
    /\ pc = "Reg" => Len(chain) = 1
    /\ pc = "Manifest" => Len(chain) = 2
    /\ pc = "Remote" => Len(chain) = 3
    /\ pc \in {"Reg", "Manifest", "Remote"} => ~chain[Len(chain)].produced
    /\ pc = "CheckVersion"
       => /\ chain # <<>>
          /\ chain[Len(chain)].produced
          /\ edge_version = chain[Len(chain)].version

\* the three local strategies produced nothing and the remote lookup
\* produced the version that is returned
C14_Witness ==
    /\ pc = "CheckVersion"
    /\ Len(chain) = 4
    /\ chain[4].strategy = "remote"
    /\ chain[4].produced
    /\ edge_version = <<"v">>

\* C15: when an error is raised inside a strategy of get_edge_version, the
\* next strategy in order is still attempted and a version is returned.
C15_ErrorDoesNotAbortChain ==
    (pc = "CheckVersion" /\ \E i \in DOMAIN chain : chain[i].erred)
    => /\ \A i \in DOMAIN chain : chain[i].erred => i < Len(chain)
       /\ Truthy(edge_version)

\* C16: download_file_with_wininet runs the native download first and the
\* urllib strategy exactly when the native one failed (a non-zero code or an
\* exception); it reports success when one of the strategies it ran
\* succeeded and failure only when both failed.
C16_FallbackIffNativeFailed ==
    transport # NoTransport
    => /\ transport.tried \in {<<"native">>, <<"native", "http">>}
       /\ (transport.tried = <<"native", "http">>) <=> (transport.native # "ok")
       /\ transport.ok <=> (transport.native = "ok" \/ transport.http = "ok")

\* the native download raised, urllib was tried and succeeded
C16_Witness ==
    /\ transport.native = "raise"
    /\ transport.http = "ok"
    /\ transport.tried = <<"native", "http">>
    /\ transport.ok

\* inet_read has returned to download_file_inet_read
InetReturned == ipc \in {"Returned", "done"}

\* C17: inet_read closes every handle it acquired exactly once before it
\* returns, on every exit path, and closes no handle it did not acquire; when
\* the connection or the URL could not be opened it returns None.
C17_HandlesReleasedOnce ==
    /\ \A h \in {"internet", "url"} :
         /\ closes[h] <= 1
         /\ handles[h] = "none" => closes[h] = 0
         /\ InetReturned => handles[h] # "open"
         /\ (InetReturned /\ handles[h] = "closed") => closes[h] = 1
    /\ (InetReturned /\ handles.url = "none") => ret = ReturnNone

\* inet_read returned through an exception raised while reading, with both
\* handles acquired and released
C17_Witness ==
    /\ InetReturned
    /\ via = "raise"
    /\ data # <<>>
    /\ closes = [internet |-> 1, url |-> 1]

\* C18: inet_read returns None or the whole stream, never a truncated
\* prefix of it, and download_file_inet_read never reports success with a
\* file that is not the whole stream.
C18_CompleteOrFailure ==
    /\ (InetReturned /\ ret.ok) => ret.data = stream
    /\ (ipc = "done" /\ saved.ok) => saved.content = stream

\* a payload file, compared case-insensitively, is somewhere under base_path
PayloadAnywhere(tree) == \E e \in tree : Lower(e.name) = PayloadName

\* the extractor ran in this call and its copy operation returned normally
CopyReturned ==
    /\ count.extract = 1
    /\ ~LogHas({"extract error: com", "no zip access", "extract error: copy"})

\* C19: after the copy, extract_zip_with_shell reports success exactly when
\* a payload file exists in the destination directory or in a subdirectory
\* of it at any depth.
C19_SuccessIffPayloadAnywhere ==
    CopyReturned
    => /\ pc = "RemoveZip" => PayloadAnywhere(baseTree)
       /\ (pc = "Cleanup" /\ count.reconcile = 0) => ~PayloadAnywhere(baseTree)

\* C20: once the archive has been unpacked, a payload that is under base_path
\* but not at the canonical path is moved there and the canonical path is
\* returned, or the path where it was found when it cannot be moved; the
\* call returns None only when there is no payload anywhere under base_path.
C20_ReconcileFindsPayload ==
    (HasReturned /\ CopyReturned)
    => /\ (~CanonicalExists(baseTree) /\ PayloadAnywhere(baseTree))
          => result = "found_path"
       /\ result = Absent => ~PayloadAnywhere(baseTree)

\* the stages of a call in their order; a stage has run when its count is 1
StageOrder == <<"probe", "mkdtemp", "inet", "extract", "reconcile">>

\* C21: within one call the stages run only in the order cache check,
\* version detection, download, extraction, reconciliation, each at most
\* once: the download starts only after a version was obtained, extraction
\* only after the download succeeded, reconciliation only after extraction
\* succeeded, and a cache hit goes from the cache check straight to the return.
C21_StagesInOrder ==
    /\ \A f \in DOMAIN count : count[f] <= 1
    /\ \A i \in 2..Len(StageOrder) :
         count[StageOrder[i]] = 1 => count[StageOrder[i - 1]] = 1
    /\ count.wininet = 1 => count.probe = 1
    /\ pc \in {"MkTemp", "Download"} => Truthy(edge_version)
    /\ count.mkdtemp = 1 => Truthy(edge_version)
    /\ (pc = "Extract" \/ count.extract = 1) => (count.inet = 1 /\ ~DownloadFailed)
    /\ (pc \in {"RemoveZip", "Reconcile"} \/ count.reconcile = 1)
       => (count.extract = 1 /\ ~ExtractFailed)
    /\ (pc = "Wmic" \/ count.probe = 1)
       => ~CanonicalExists(baseTree) \/ count.extract = 1
    /\ (HasReturned /\ count.probe = 0)
       => (count = ZeroCount /\ result \in {"driver_path", "exe_path"})

\* a call is about to reconcile after detection, download and extraction
C21_Witness ==
    /\ pc = "Reconcile"
    /\ count = [probe |-> 1, wininet |-> 1, inet |-> 1, extract |-> 1,
                mkdtemp |-> 1, reconcile |-> 0]

\* C22: whenever a call returns a path, a payload file exists at that very
\* path when it returns, on the cache-hit branch and after an acquisition.
C22_ReturnedPathExists ==
    HasReturned
    => /\ result = "driver_path" => CanonicalExists(baseTree)
       /\ result = "exe_path" => ExeCandidateExists(baseTree, sameDir, exePayload)
       /\ result = "found_path"
          => \E e \in baseTree : e.dir # "" /\ Lower(e.name) = PayloadName

\* a call that downloaded and extracted the archive returned driver_path
C22_Witness ==
    /\ HasReturned
    /\ result = "driver_path"
    /\ count.reconcile = 1
    /\ raised = {}
    /\ CanonicalExists(baseTree)

\* the number of files in folder d
FilesIn(files, d) == Cardinality({f \in files : f.dir = d})

\* C23: move_file never overwrites: the target it chooses does not exist
\* before the move, a colliding name gets the smallest free counter suffix,
\* every file a category folder held is still there with its content, and
\* the folder grows by exactly one file per completed move.
C23_MoveNeverOverwrites ==
    [][ (opc = "loop" /\ todo' # todo)
        => LET entry == CHOOSE f \in todo : f \notin todo'
               d == DestFolder(entry.name)
               moved == orgFiles' # orgFiles
           IN  /\ \A f \in orgFiles : f.dir # "" => f \in orgFiles'
               /\ \A g \in Folders :
                    FilesIn(orgFiles', g) =
                      FilesIn(orgFiles, g) + (IF moved /\ g = d THEN 1 ELSE 0)
               /\ target' # NoTarget
                  => /\ target'.dir = d
                     /\ ~OExists(orgFiles, d, target'.name)
                     /\ \/ target'.name = entry.name
                        \/ /\ target'.name.ctrs # <<>>
                           /\ LET k == target'.name.ctrs[Len(target'.name.ctrs)] IN
                              /\ k >= 1
                              /\ target'.name = WithCounter(entry.name, k)
                              /\ OExists(orgFiles, d, entry.name)
                              /\ \A j \in 1..(k - 1) :
                                   OExists(orgFiles, d, WithCounter(entry.name, j))
               /\ moved => OFile(d, target'.name, entry.content) \in orgFiles' ]_vars

\* a.jpg was moved into an Images folder that held a.jpg and "a (1).jpg":
\* it is there as "a (2).jpg", next to the two old files
C23_Witness ==
    /\ opc = "loop"
    /\ target = [dir |-> "Images", name |-> Name("a", <<2>>, ".jpg")]
    /\ OFile("Images", Name("a", <<2>>, ".jpg"), "new") \in orgFiles
    /\ OFile("Images", Name("a", <<>>, ".jpg"), "old") \in orgFiles
    /\ OFile("Images", Name("a", <<1>>, ".jpg"), "old") \in orgFiles

\* C24: with dry_run set, organize_directory leaves the file system as it
\* is: no file is moved or renamed and no directory is created.
C24_DryRunChangesNothing ==
    [][ (dry_run /\ opc = "loop") => UNCHANGED <<orgFiles, orgDirs>> ]_vars

\* the highest severity among the disks, whatever their order
MaxSeverity(ds) ==
    IF \E i \in DOMAIN ds : ds[i] > 90 THEN 2
    ELSE IF \E i \in DOMAIN ds : ds[i] > 80 THEN 1
    ELSE 0

\* C25: severity_from_disks gives the highest severity over the disks in any
\* order (2 above 90 percent, 1 above 80, else 0; exactly 80 and exactly 90
\* fall in the lower band), and the exit status is that severity whenever
\* the report was written or printed, and 2 when writing the file failed.
C25_ExitCodeIsSeverity ==
    /\ hpc # "idle" => sev = MaxSeverity(disks)
    /\ hpc = "exited"
       => /\ report \in {"written", "printed"} => status = sev
          /\ report = "write failed" => status = 2

====
